---------------------------- MODULE Spec2Model ----------------------------
(***************************************************************************)
(* A model of src/src/main.rs: a Bevy app whose Update stage holds six     *)
(* systems (update_from_velocity, update_from_gravity, handle_collision,   *)
(* exit_on_escape_system, pause_game, maintain_sorted_entities_x) over an  *)
(* ECS world built by the startup system setup.                            *)
(*                                                                         *)
(* Numbers.  An f32 is modelled as a record: a finite value counted in     *)
(* units of 1/One (a fixed-point grid; every multiplication, division and  *)
(* square root rounds to the grid, as every f32 operation rounds to the    *)
(* f32 grid), an infinity with its sign, or NaN.  Signed zeros, overflow   *)
(* to infinity and the varying spacing of the f32 grid are not modelled.   *)
(***************************************************************************)
EXTENDS Integers, Sequences, FiniteSets, TLC

\* The f32 value 1.0, in grid units: a finite f32 x is the integer x * One.
One == 100

NaN == [k |-> "nan", v |-> 0]
Inf(s) == [k |-> "inf", v |-> s]
F(n) == [k |-> "fin", v |-> n]

Abs(n) == IF n < 0 THEN -n ELSE n
Sign(n) == IF n < 0 THEN -1 ELSE IF n > 0 THEN 1 ELSE 0

\* n / d rounded to the nearest integer, ties away from zero (d # 0).
Round(n, d) == Sign(n) * Sign(d) * ((2 * Abs(n) + Abs(d)) \div (2 * Abs(d)))

\* The largest r with r * r <= n, by bisection on lo..hi (n >= 0).
RECURSIVE SqrtBetween(_, _, _)
SqrtBetween(n, lo, hi) ==
    IF lo >= hi THEN lo
    ELSE LET mid == (lo + hi + 1) \div 2
         IN  IF mid * mid <= n THEN SqrtBetween(n, mid, hi)
                               ELSE SqrtBetween(n, lo, mid - 1)

ISqrt(n) == SqrtBetween(n, 0, IF n < 46340 THEN n ELSE 46340)

IsFinite(a) == a.k = "fin"
IsNaN(a) == a.k = "nan"

\* f32 negation, addition, subtraction, multiplication, division, sqrt.
FNeg(a) ==
    CASE a.k = "nan" -> NaN
      [] a.k = "inf" -> Inf(-a.v)
      [] OTHER -> F(-a.v)

FAdd(a, b) ==
    CASE a.k = "nan" \/ b.k = "nan" -> NaN
      [] a.k = "inf" /\ b.k = "inf" -> IF a.v = b.v THEN a ELSE NaN
      [] a.k = "inf" -> a
      [] b.k = "inf" -> b
      [] OTHER -> F(a.v + b.v)

FSub(a, b) == FAdd(a, FNeg(b))

FMul(a, b) ==
    CASE a.k = "nan" \/ b.k = "nan" -> NaN
      [] a.k = "inf" \/ b.k = "inf" ->
            IF Sign(a.v) * Sign(b.v) = 0 THEN NaN
            ELSE Inf(Sign(a.v) * Sign(b.v))
      [] OTHER -> F(Round(a.v * b.v, One))

FDiv(a, b) ==
    CASE a.k = "nan" \/ b.k = "nan" -> NaN
      [] a.k = "inf" /\ b.k = "inf" -> NaN
      [] a.k = "inf" -> Inf(IF b.v < 0 THEN -a.v ELSE a.v)
      [] b.k = "inf" -> F(0)
      [] b.v = 0 -> IF a.v = 0 THEN NaN ELSE Inf(Sign(a.v))
      [] OTHER -> F(Round(a.v * One, b.v))

FSqrt(a) ==
    CASE a.k = "nan" -> NaN
      [] a.k = "inf" -> IF a.v > 0 THEN a ELSE NaN
      [] a.v < 0 -> NaN
      [] OTHER -> F(ISqrt(a.v * One))

\* f32 `<`: false as soon as an operand is NaN.
FLt(a, b) ==
    CASE a.k = "nan" \/ b.k = "nan" -> FALSE
      [] a.k = "inf" /\ b.k = "inf" -> a.v < b.v
      [] a.k = "inf" -> a.v < 0
      [] b.k = "inf" -> b.v > 0
      [] OTHER -> a.v < b.v

\* f32::partial_cmp: "Less", "Equal", "Greater", or "None" with a NaN.
PartialCmp(a, b) ==
    CASE a.k = "nan" \/ b.k = "nan" -> "None"
      [] FLt(a, b) -> "Less"
      [] FLt(b, a) -> "Greater"
      [] OTHER -> "Equal"

\* glam::Vec3, a triple of f32, and the operations the systems use.
Vec3(x, y, z) == <<x, y, z>>
VNeg(a) == <<FNeg(a[1]), FNeg(a[2]), FNeg(a[3])>>
VAdd(a, b) == <<FAdd(a[1], b[1]), FAdd(a[2], b[2]), FAdd(a[3], b[3])>>
VSub(a, b) == <<FSub(a[1], b[1]), FSub(a[2], b[2]), FSub(a[3], b[3])>>
VScale(a, s) == <<FMul(a[1], s), FMul(a[2], s), FMul(a[3], s)>>
Dot(a, b) == FAdd(FAdd(FMul(a[1], b[1]), FMul(a[2], b[2])), FMul(a[3], b[3]))
Length(a) == FSqrt(Dot(a, a))
Distance(a, b) == Length(VSub(a, b))
Normalize(a) == VScale(a, FDiv(F(One), Length(a)))
VFinite(a) == IsFinite(a[1]) /\ IsFinite(a[2]) /\ IsFinite(a[3])

(***************************************************************************)
(* The ECS world.  An entity is a number, in spawn order.  Each component  *)
(* type is a function from the entities that carry it to its value; a      *)
(* Query matches the entities that carry all the components it names.      *)
(* SortedEntitiesByY, which no system reads or writes, is left out; its    *)
(* entity keeps its place in the spawn order.                              *)
(***************************************************************************)
VARIABLES
    stage,        \* "startup", "input", "update", "exit" or "panicked"
    frame,        \* the number of frames started
    mesh,         \* the entities spawned from a MaterialMesh2dBundle: the bodies
    transform,    \* Transform.translation, a Vec3
    velocity,     \* Velocity, a Vec3
    mass,         \* Mass, a u32
    pause,        \* Pause, a bool
    sortedX,      \* SortedEntitiesByX, a Vec<(Entity, f32)>
    pressed,      \* Input<KeyCode>: the keys held down
    just_pressed, \* Input<KeyCode>: the keys that went down this frame
    delta,        \* Time::delta_seconds() of the frame
    appExit,      \* an AppExit event has been sent
    ran,          \* the systems that have run in the frame
    seen,         \* for each physics system that ran: the Pause value it read
    pause0,       \* the Pause value at the start of the frame
    transform0,   \* the Transform components at the start of the frame
    velocity0,    \* the Velocity components at the start of the frame
    edges         \* the number of times the Space key has gone down

world == <<mesh, transform, velocity, mass, pause, sortedX>>
input == <<pressed, just_pressed, delta>>
history == <<seen, pause0, transform0, velocity0, edges>>
vars == <<stage, frame, world, input, appExit, ran, history>>

\* Bounds of the model.
MaxFrames == 3
MaxBodies == 3

\* Program constants.
NumBodies == 20
Spacing == 100
Threshold == 10

Keys == {"Space", "Escape"}
Physics == {"update_from_velocity", "update_from_gravity", "handle_collision"}
Systems == Physics \cup {"exit_on_escape_system", "pause_game",
                         "maintain_sorted_entities_x"}

\* The elapsed times a frame may be given: 0.5 s and 2 s.
DeltaSeconds == {F(One \div 2), F(2 * One)}

Empty == [e \in {} |-> 0]
Min(S) == CHOOSE x \in S : \A y \in S : x <= y

\* Query::iter().next(): the first entity carrying the component, if any.
PauseEntities == DOMAIN pause
Paused == pause[Min(PauseEntities)]

\* The set S of entities as a sequence, in entity order.
RECURSIVE InOrder(_)
InOrder(S) ==
    IF S = {} THEN <<>> ELSE <<Min(S)>> \o InOrder(S \ {Min(S)})

\* Every pair <<a, b>> of distinct elements of q, in both orders.
PairsFromBoth(q) ==
    LET n == Len(q)
    IN  [k \in 1..(n * (n - 1)) |->
            LET i == ((k - 1) \div (n - 1)) + 1
                r == ((k - 1) % (n - 1)) + 1
            IN  <<q[i], q[IF r < i THEN r ELSE r + 1]>>]

\* Query::iter_combinations_mut::<2>(): every pair <<a, b>> of matched
\* entities with a before b, once, in lexicographic order.
RECURSIVE PairsFrom(_)
PairsFrom(q) ==
    IF Len(q) < 2 THEN <<>>
    ELSE [i \in 1..(Len(q) - 1) |-> <<q[1], q[i + 1]>>] \o PairsFrom(Tail(q))

\* The combinations of S extended with the pair of each entity with itself.
CombinationsWithSelf(S) ==
    PairsFrom(InOrder(S)) \o [i \in 1..Cardinality(S) |->
                                 <<InOrder(S)[i], InOrder(S)[i]>>]

Combinations(S) == PairsFrom(InOrder(S))

(***************************************************************************)
(* setup: the camera, NumBodies mesh entities with a Transform only, the   *)
(* by-X index, the Pause flag.                                             *)
(***************************************************************************)
CameraTransform == Vec3(F(0), F(0), F(Round(9999 * One, 10)))

BodyX(i) == FMul(F(Spacing * One), F(i * One))

\* The Vec of setup, filled with the loop counter in place of the entity.
x_items_by_counter == [i \in 1..NumBodies |-> <<i - 1, BodyX(i - 1)>>]

\* The Vec setup fills in its loop: (entity, x) for each body, in spawn order.
x_items == [i \in 1..NumBodies |-> <<i, BodyX(i - 1)>>]

\* setup spawning every body with a Velocity and a Mass as well.
setup_with_physics ==
    /\ stage = "startup"
    /\ stage' = "input"
    /\ mesh' = 1..NumBodies
    /\ transform' = [e \in 0..NumBodies |->
                        IF e = 0 THEN CameraTransform
                        ELSE Vec3(BodyX(e - 1), F(0), F(0))]
    /\ velocity' = [e \in 1..NumBodies |-> Vec3(F(One), F(0), F(0))]
    /\ mass' = [e \in 1..NumBodies |-> 10]
    /\ sortedX' = [e \in {NumBodies + 1} |-> x_items]
    /\ pause' = [e \in {NumBodies + 3} |-> FALSE]
    /\ UNCHANGED <<frame, input, appExit, ran, history>>

setup ==
    /\ stage = "startup"
    /\ stage' = "input"
    /\ mesh' = 1..NumBodies
    /\ transform' = [e \in 0..NumBodies |->
                        IF e = 0 THEN CameraTransform
                        ELSE Vec3(BodyX(e - 1), F(0), F(0))]
    /\ velocity' = Empty
    /\ mass' = Empty
    /\ sortedX' = [e \in {NumBodies + 1} |-> x_items]
    /\ pause' = [e \in {NumBodies + 3} |-> FALSE]
    /\ UNCHANGED <<frame, input, appExit, ran, history>>

(***************************************************************************)
(* The stages before Update: the keyboard and the clock.  A key is         *)
(* just_pressed in the frame in which it goes down, and pressed while it   *)
(* is held.  The frame's starting values are recorded for the properties.  *)
(***************************************************************************)
PreUpdate ==
    /\ stage = "input"
    /\ frame < MaxFrames
    /\ \E down \in SUBSET Keys, dt \in DeltaSeconds :
          /\ just_pressed' = down \ pressed
          /\ pressed' = down
          /\ delta' = dt
          /\ edges' = IF "Space" \in down \ pressed THEN edges + 1 ELSE edges
    /\ stage' = "update"
    /\ frame' = frame + 1
    /\ ran' = {}
    /\ seen' = Empty
    /\ pause0' = Paused
    /\ transform0' = transform
    /\ velocity0' = velocity
    /\ UNCHANGED <<world, appExit>>

\* What every system does besides its own effect: it runs once per frame.
Runs(name) ==
    /\ stage = "update"
    /\ name \notin ran
    /\ ran' = ran \cup {name}
    /\ UNCHANGED <<frame, mesh, input, pause0, transform0, velocity0, edges>>

Reads(name, p) == [s \in DOMAIN seen \cup {name} |->
                      IF s = name THEN p ELSE seen[s]]

\* pause_game testing pressed (the key is held) in place of just_pressed.
pause_game_while_held ==
    /\ Runs("pause_game")
    /\ IF "Space" \in pressed
       THEN /\ pause' = [pause EXCEPT ![Min(PauseEntities)] = ~@]
            /\ stage' = stage
       ELSE UNCHANGED <<stage, pause>>
    /\ UNCHANGED <<transform, velocity, mass, sortedX, appExit, seen>>

\* pause_game setting the flag in place of flipping it.
pause_game_set ==
    /\ Runs("pause_game")
    /\ IF "Space" \in just_pressed
       THEN /\ pause' = [pause EXCEPT ![Min(PauseEntities)] = TRUE]
            /\ stage' = stage
       ELSE UNCHANGED <<stage, pause>>
    /\ UNCHANGED <<transform, velocity, mass, sortedX, appExit, seen>>

pause_game ==
    /\ Runs("pause_game")
    /\ IF "Space" \in just_pressed
       THEN IF PauseEntities = {}
            THEN stage' = "panicked" /\ pause' = pause
            ELSE /\ pause' = [pause EXCEPT ![Min(PauseEntities)] = ~@]
                 /\ stage' = stage
       ELSE UNCHANGED <<stage, pause>>
    /\ UNCHANGED <<transform, velocity, mass, sortedX, appExit, seen>>

exit_on_escape_system ==
    /\ Runs("exit_on_escape_system")
    /\ appExit' = (appExit \/ "Escape" \in just_pressed)
    /\ UNCHANGED <<stage, transform, velocity, mass, pause, sortedX, seen>>

\* The insertion of a sort whose comparison is reversed (b against a).
RECURSIVE InsertSortedReversed(_, _)
InsertSortedReversed(x, s) ==
    IF s = <<>> THEN <<x>>
    ELSE IF PartialCmp(Head(s)[2], x[2]) = "Less" THEN <<x>> \o s
         ELSE <<Head(s)>> \o InsertSortedReversed(x, Tail(s))

\* slice::sort_by, a stable sort: x goes after the entries that are not
\* greater than it.
RECURSIVE InsertSorted(_, _)
InsertSorted(x, s) ==
    IF s = <<>> THEN <<x>>
    ELSE IF PartialCmp(x[2], Head(s)[2]) = "Less" THEN <<x>> \o s
         ELSE <<Head(s)>> \o InsertSorted(x, Tail(s))

RECURSIVE StableSort(_)
StableSort(s) ==
    IF s = <<>> THEN <<>>
    ELSE InsertSorted(s[Len(s)], StableSort(SubSeq(s, 1, Len(s) - 1)))

\* partial_cmp(..).unwrap() panics when a compared coordinate is NaN.
SortPanics(s) == Len(s) >= 2 /\ \E i \in 1..Len(s) : IsNaN(s[i][2])

\* maintain_sorted_entities_x reading each entry's coordinate from the
\* entity's Transform before it sorts.
maintain_from_transforms ==
    /\ Runs("maintain_sorted_entities_x")
    /\ LET e == Min(DOMAIN sortedX)
           fresh == [i \in 1..Len(sortedX[e]) |->
                        <<sortedX[e][i][1], transform[sortedX[e][i][1]][1]>>]
       IN  IF SortPanics(fresh)
           THEN stage' = "panicked" /\ sortedX' = sortedX
           ELSE /\ sortedX' = [sortedX EXCEPT ![e] = StableSort(fresh)]
                /\ stage' = stage
    /\ UNCHANGED <<transform, velocity, mass, pause, appExit, seen>>

maintain_sorted_entities_x ==
    /\ Runs("maintain_sorted_entities_x")
    /\ IF Cardinality(DOMAIN sortedX) # 1
       THEN stage' = "panicked" /\ sortedX' = sortedX
       ELSE LET e == Min(DOMAIN sortedX)
            IN  IF SortPanics(sortedX[e])
                THEN stage' = "panicked" /\ sortedX' = sortedX
                ELSE /\ sortedX' = [sortedX EXCEPT ![e] = StableSort(@)]
                     /\ stage' = stage
    /\ UNCHANGED <<transform, velocity, mass, pause, appExit, seen>>

\* The loop of handle_collision, reversing a body once however many pairs
\* closer than the threshold it is part of.
CollideOnce(pairs, vel, tr) ==
    [e \in DOMAIN vel |->
        IF \E i \in 1..Len(pairs) :
              /\ e \in {pairs[i][1], pairs[i][2]}
              /\ FLt(Distance(tr[pairs[i][1]], tr[pairs[i][2]]),
                     F(Threshold * One))
        THEN VNeg(vel[e])
        ELSE vel[e]]

\* The loop of handle_collision, reversing only the first body of a pair.
RECURSIVE CollideFirstOnly(_, _, _)
CollideFirstOnly(pairs, vel, tr) ==
    IF pairs = <<>> THEN vel
    ELSE LET a == Head(pairs)[1]
             b == Head(pairs)[2]
         IN  CollideFirstOnly(Tail(pairs),
                     IF FLt(Distance(tr[a], tr[b]), F(Threshold * One))
                     THEN [vel EXCEPT ![a] = VNeg(@)]
                     ELSE vel,
                     tr)

\* The loop of handle_collision over the pairs, in order.
RECURSIVE Collide(_, _, _)
Collide(pairs, vel, tr) ==
    IF pairs = <<>> THEN vel
    ELSE LET a == Head(pairs)[1]
             b == Head(pairs)[2]
         IN  Collide(Tail(pairs),
                     IF FLt(Distance(tr[a], tr[b]), F(Threshold * One))
                     THEN [vel EXCEPT ![a] = VNeg(@), ![b] = VNeg(@)]
                     ELSE vel,
                     tr)

\* handle_collision without its early return on the Pause flag.
handle_collision_ungated ==
    /\ Runs("handle_collision")
    /\ stage' = stage
    /\ seen' = Reads("handle_collision", Paused)
    /\ velocity' = Collide(Combinations(DOMAIN velocity \cap DOMAIN transform),
                           velocity, transform)
    /\ UNCHANGED <<transform, mass, pause, sortedX, appExit>>

handle_collision ==
    /\ Runs("handle_collision")
    /\ IF PauseEntities = {}
       THEN stage' = "panicked" /\ UNCHANGED <<velocity, seen>>
       ELSE /\ stage' = stage
            /\ seen' = Reads("handle_collision", Paused)
            /\ velocity' =
                 IF Paused THEN velocity
                 ELSE Collide(Combinations(DOMAIN velocity \cap DOMAIN transform),
                              velocity, transform)
    /\ UNCHANGED <<transform, mass, pause, sortedX, appExit>>

\* update_from_velocity stopping every body it has moved.
update_from_velocity_and_stop ==
    /\ Runs("update_from_velocity")
    /\ stage' = stage
    /\ seen' = Reads("update_from_velocity", Paused)
    /\ transform' =
         IF Paused THEN transform
         ELSE [e \in DOMAIN transform |->
                  IF e \in DOMAIN velocity
                  THEN VAdd(transform[e], VScale(velocity[e], delta))
                  ELSE transform[e]]
    /\ velocity' =
         IF Paused THEN velocity
         ELSE [e \in DOMAIN velocity |-> Vec3(F(0), F(0), F(0))]
    /\ UNCHANGED <<mass, pause, sortedX, appExit>>

update_from_velocity ==
    /\ Runs("update_from_velocity")
    /\ IF PauseEntities = {}
       THEN stage' = "panicked" /\ UNCHANGED <<transform, seen>>
       ELSE /\ stage' = stage
            /\ seen' = Reads("update_from_velocity", Paused)
            /\ transform' =
                 IF Paused THEN transform
                 ELSE [e \in DOMAIN transform |->
                          IF e \in DOMAIN velocity
                          THEN VAdd(transform[e], VScale(velocity[e], delta))
                          ELSE transform[e]]
    /\ UNCHANGED <<velocity, mass, pause, sortedX, appExit>>

calculate_new_velocity(m1, m2, t1, t2) ==
    LET fm1 == F(m1 * One)
        fm2 == F(m2 * One)
        direction == VSub(t2, t1)
        distance == Length(direction)
        force == FDiv(F(One), FMul(distance, distance))
        force2 == VScale(Normalize(direction), force)
    IN  VScale(VScale(force2, fm1), fm2)

\* The loop of update_from_gravity over the pairs, in order.
RECURSIVE Attract(_, _, _, _)
Attract(pairs, vel, tr, ms) ==
    IF pairs = <<>> THEN vel
    ELSE LET a == Head(pairs)[1]
             b == Head(pairs)[2]
             force == calculate_new_velocity(ms[a], ms[b], tr[a], tr[b])
         IN  Attract(Tail(pairs),
                     [vel EXCEPT ![a] = VAdd(@, force), ![b] = VSub(@, force)],
                     tr, ms)

update_from_gravity ==
    /\ Runs("update_from_gravity")
    /\ IF PauseEntities = {}
       THEN stage' = "panicked" /\ UNCHANGED <<velocity, seen>>
       ELSE /\ stage' = stage
            /\ seen' = Reads("update_from_gravity", Paused)
            /\ velocity' =
                 IF Paused THEN velocity
                 ELSE Attract(Combinations(DOMAIN mass \cap DOMAIN transform
                                             \cap DOMAIN velocity),
                              velocity, transform, mass)
    /\ UNCHANGED <<transform, mass, pause, sortedX, appExit>>

\* The end of App::update: the runner leaves its loop on an AppExit event.
EndFrame ==
    /\ stage = "update"
    /\ ran = Systems
    /\ stage' = IF appExit THEN "exit" ELSE "input"
    /\ UNCHANGED <<frame, world, input, appExit, ran, history>>

\* The Update stage: the systems were added without any ordering between
\* them, so the scheduler may run them in any order, each once per frame.
Update ==
    \/ update_from_velocity
    \/ update_from_gravity
    \/ handle_collision
    \/ exit_on_escape_system
    \/ pause_game
    \/ maintain_sorted_entities_x

Init ==
    /\ stage = "startup"
    /\ frame = 0
    /\ mesh = {}
    /\ transform = Empty
    /\ velocity = Empty
    /\ mass = Empty
    /\ pause = Empty
    /\ sortedX = Empty
    /\ pressed = {}
    /\ just_pressed = {}
    /\ delta = F(0)
    /\ appExit = FALSE
    /\ ran = {}
    /\ seen = Empty
    /\ pause0 = FALSE
    /\ transform0 = Empty
    /\ velocity0 = Empty
    /\ edges = 0

Next == setup \/ PreUpdate \/ Update \/ EndFrame

Spec == Init /\ [][Next]_vars

(***************************************************************************)
(* The systems over any world.  The systems are functions of the world     *)
(* they are given, so a second specification starts from a world laid out  *)
(* as setup lays it out (camera, bodies, index, flag) in which every body  *)
(* also carries a Velocity and a Mass, with any Pause value, and runs the  *)
(* last frame the model explores.  The index is filled as setup fills it:  *)
(* one entry per body, in spawn order, holding the body's x coordinate.    *)
(***************************************************************************)
Body(x, y, vx, vy, m) ==
    [translation |-> Vec3(F(x * One), F(y * One), F(0)),
     velocity |-> Vec3(F(vx * One), F(vy * One), F(0)),
     mass |-> m]

\* The bodies a world is drawn from: a chain of three points 5 apart whose
\* ends are exactly 10 apart; two bodies drawn alike coincide (distance 0).
BodyStates == {Body(0, 0, 1, -2, 1), Body(3, 4, -3, 0, 2), Body(6, 8, 0, 2, 2)}

WorldInit ==
    /\ stage = "input"
    /\ frame = MaxFrames - 1
    /\ \E n \in 0..MaxBodies :
          \E b \in [1..n -> BodyStates] :
             /\ mesh = 1..n
             /\ transform = [e \in 0..n |-> IF e = 0 THEN CameraTransform
                                            ELSE b[e].translation]
             /\ velocity = [e \in 1..n |-> b[e].velocity]
             /\ mass = [e \in 1..n |-> b[e].mass]
             /\ sortedX = [e \in {n + 1} |->
                              [i \in 1..n |-> <<i, b[i].translation[1]>>]]
             /\ pause \in [{n + 3} -> BOOLEAN]
             /\ transform0 = transform
             /\ velocity0 = velocity
    /\ pressed = {}
    /\ just_pressed = {}
    /\ delta = F(0)
    /\ appExit = FALSE
    /\ ran = {}
    /\ seen = Empty
    /\ pause0 = Paused
    /\ edges = 0

WorldNext == PreUpdate \/ Update \/ EndFrame

WorldSpec == WorldInit /\ [][WorldNext]_vars

(***************************************************************************)
(* Properties.                                                             *)
(***************************************************************************)
Index == sortedX[Min(DOMAIN sortedX)]
FrameDone == stage = "update" /\ ran = Systems
SawPaused == \A s \in DOMAIN seen : seen[s]
SawUnpaused == \A s \in DOMAIN seen : ~seen[s]
Near(a, b) == FLt(Distance(transform[a], transform[b]), F(Threshold * One))
Moving(e) == velocity[e] # Vec3(F(0), F(0), F(0))

\* C1: in a frame in which every physics system that has run read the Pause
\* flag as true, every body's position and velocity are what they were at
\* the start of the frame, whatever the elapsed time.
PausedFrameChangesNothing ==
    SawPaused => transform = transform0 /\ velocity = velocity0

\* C1 witness: a whole frame was run paused, with 2 s elapsed, over moving
\* bodies of which two are within the collision distance.
PausedFrameRan ==
    /\ FrameDone
    /\ DOMAIN seen = Physics
    /\ SawPaused
    /\ pause0
    /\ delta = F(2 * One)
    /\ \E a, b \in DOMAIN velocity : a # b /\ Near(a, b) /\ Moving(a) /\ Moving(b)

\* C2: within a frame the systems run in the order gravity, collision,
\* integration, index refresh: none of them has run unless the one before
\* it in that order has.
FixedSystemOrder ==
    /\ "handle_collision" \in ran => "update_from_gravity" \in ran
    /\ "update_from_velocity" \in ran => "handle_collision" \in ran
    /\ "maintain_sorted_entities_x" \in ran => "update_from_velocity" \in ran

\* C3: the physics systems that have run in a frame all read the same Pause
\* value (the flag is written before any of them reads it).
ConsistentPauseReads ==
    \A s, t \in DOMAIN seen : seen[s] = seen[t]

\* The bodies each physics query matches.
Colliders == DOMAIN velocity \cap DOMAIN transform
Attracted == DOMAIN mass \cap DOMAIN transform \cap DOMAIN velocity
AllFinite(vel) == \A e \in DOMAIN vel : VFinite(vel[e])

\* A step of a system that read the Pause flag as false.
CollisionStep ==
    /\ "handle_collision" \notin ran
    /\ "handle_collision" \in ran'
    /\ ~Paused
GravityStep ==
    /\ "update_from_gravity" \notin ran
    /\ "update_from_gravity" \in ran'
    /\ ~Paused
MaintainStep ==
    /\ "maintain_sorted_entities_x" \notin ran
    /\ "maintain_sorted_entities_x" \in ran'
    /\ stage' # "panicked"

\* Whether the collision step reversed, or left alone, both bodies of a pair.
Reversed(a, b) ==
    velocity'[a] = VNeg(velocity[a]) /\ velocity'[b] = VNeg(velocity[b])
Kept(a, b) == velocity'[a] = velocity[a] /\ velocity'[b] = velocity[b]

\* C4 as stated: an unpaused run of the collision system reverses the
\* velocity of both bodies of every pair closer than 10 and leaves the
\* velocities of every pair at 10 or more unchanged.
CollisionReversesEveryNearPair ==
    [][CollisionStep =>
         \A a, b \in Colliders :
            a # b => IF Near(a, b) THEN Reversed(a, b) ELSE Kept(a, b)]_vars

\* Neither a nor b is closer than 10 to a third body.
Alone(a, b) ==
    \A c \in Colliders \ {a, b} : ~Near(a, c) /\ ~Near(b, c)

\* C4 amended: an unpaused run of the collision system reverses the velocity
\* of both bodies of every pair closer than 10, and leaves the velocities of
\* every pair at 10 or more unchanged, when neither body of the pair is closer
\* than 10 to a third body.
CollisionReversesLonePairs ==
    [][CollisionStep =>
         \A a, b \in Colliders :
            a # b /\ Alone(a, b) =>
               IF Near(a, b) THEN Reversed(a, b) ELSE Kept(a, b)]_vars

\* C4 witness: the collision system ran first in an unpaused frame over three
\* bodies and reversed two moving bodies closer than 10 to each other and to
\* no third body.
LonePairReversed ==
    /\ ran = {"handle_collision"}
    /\ DOMAIN seen = {"handle_collision"}
    /\ SawUnpaused
    /\ Cardinality(Colliders) = 3
    /\ \E a, b \in Colliders :
          /\ a # b /\ Near(a, b) /\ Alone(a, b)
          /\ Moving(a) /\ Moving(b)
          /\ velocity[a] = VNeg(velocity0[a])
          /\ velocity[b] = VNeg(velocity0[b])

\* The total momentum: the sum over the bodies of mass * velocity.
RECURSIVE SumMomentum(_, _)
SumMomentum(q, vel) ==
    IF q = <<>> THEN Vec3(F(0), F(0), F(0))
    ELSE VAdd(VScale(vel[Head(q)], F(mass[Head(q)] * One)),
              SumMomentum(Tail(q), vel))

Momentum(vel) == SumMomentum(InOrder(Attracted), vel)

\* C5: an unpaused run of the gravity system over bodies of which no two are
\* closer than 10, and which leaves every velocity finite, does not change
\* the total momentum.
GravityConservesMomentum ==
    [][(/\ GravityStep
        /\ \A a, b \in Attracted : a # b => ~Near(a, b)
        /\ AllFinite(velocity'))
          => Momentum(velocity') = Momentum(velocity)]_vars

\* C6: at the end of a frame that every physics system ran unpaused, with
\* every velocity finite, each body's position is its position at the start
\* of the frame plus its velocity at the end of the frame times the elapsed
\* time.
IntegratesFinalVelocity ==
    (/\ FrameDone
     /\ DOMAIN seen = Physics
     /\ SawUnpaused
     /\ AllFinite(velocity))
       => \A e \in Colliders :
             transform[e] = VAdd(transform0[e], VScale(velocity[e], delta))

\* C7: right after the index maintainer has run, every entry of the by-X
\* index holds the current x coordinate of its body.
IndexHoldsCurrentX ==
    [][MaintainStep =>
         \A i \in 1..Len(Index') :
            Index'[i][2] = transform'[Index'[i][1]][1]]_vars

\* f32 `<=`.
FLe(a, b) == PartialCmp(a, b) \in {"Less", "Equal"}

\* C8: once the index maintainer has run in a frame, the by-X index is in
\* non-decreasing coordinate order.
IndexSortedAfterMaintainer ==
    ("maintain_sorted_entities_x" \in ran /\ stage # "panicked")
       => \A i \in 1..(Len(Index) - 1) : FLe(Index[i][2], Index[i + 1][2])

\* C8 witness: the maintainer has run over an index of three entries and
\* moved the body spawned last in front of the body spawned first.
MaintainerReordered ==
    /\ "maintain_sorted_entities_x" \in ran
    /\ Len(Index) = 3
    /\ \E i, j \in 1..3 : i < j /\ Index[i][1] = 3 /\ Index[j][1] = 1

\* C9: after startup the by-X index is as long as there are bodies and
\* holds every body's handle exactly once.
IndexListsEveryBodyOnce ==
    stage # "startup" =>
       /\ Cardinality(DOMAIN sortedX) = 1
       /\ Len(Index) = Cardinality(mesh)
       /\ \A b \in mesh :
             Cardinality({i \in 1..Len(Index) : Index[i][1] = b}) = 1

\* C9 witness: the maintainer has run in a paused frame that is not the
\* first, over the index of all the bodies setup created.
IndexedAfterFrames ==
    /\ stage = "update"
    /\ frame >= 2
    /\ "maintain_sorted_entities_x" \in ran
    /\ Paused
    /\ Len(Index) = NumBodies
    /\ Cardinality(mesh) = NumBodies

\* C10: right after startup there are NumBodies bodies, each with a
\* position, a velocity and a positive mass, one Pause flag, false, and an
\* index entry holding each body's x coordinate.
StartupWorld ==
    (stage = "input" /\ frame = 0) =>
       /\ Cardinality(mesh) = NumBodies
       /\ \A b \in mesh :
             /\ b \in DOMAIN transform
             /\ b \in DOMAIN velocity
             /\ b \in DOMAIN mass
             /\ mass[b] > 0
       /\ Cardinality(DOMAIN pause) = 1
       /\ ~Paused
       /\ \A b \in mesh :
             \E i \in 1..Len(Index) : Index[i] = <<b, transform[b][1]>>

\* C11: once pause_game has run in the frame of the latest Space key-down,
\* the flag, false at startup, is false after an even number of key-downs and
\* true after an odd number; frames in which the key is up or held count
\* no key-down.
PauseIsParityOfEdges ==
    (stage \in {"input", "exit"} \/ (stage = "update" /\ "pause_game" \in ran))
       => Paused = (edges % 2 = 1)

\* C11 witness: the key went down in the first frame, was released, and went
\* down again in the third; pause_game has run in that frame and the flag is
\* back to its startup value.
ToggledTwice ==
    /\ stage = "update"
    /\ "pause_game" \in ran
    /\ edges = 2
    /\ frame = 3
    /\ "Space" \in just_pressed
    /\ ~Paused

\* Two bodies the gravity system matches are at the same position.
Coincide(a, b) == a # b /\ Distance(transform[a], transform[b]) = F(0)

\* C12: an unpaused run of the gravity system over bodies with finite
\* velocities, two of which are at the same position, leaves every component
\* of every velocity finite.
GravityKeepsVelocitiesFinite ==
    [][(/\ GravityStep
        /\ AllFinite(velocity)
        /\ \E a, b \in Attracted : Coincide(a, b))
       => AllFinite(velocity')]_vars

\* C13: in a world of no body or one body, while every physics system that
\* has run read the Pause flag as false, nothing has panicked, the velocity
\* is what it was at the start of the frame, and the body is where it
\* started, moved by velocity * elapsed once the integrator has run.
FewBodiesOnlyIntegrate ==
    (Cardinality(mesh) <= 1 /\ SawUnpaused) =>
       /\ stage # "panicked"
       /\ velocity = velocity0
       /\ \A e \in mesh :
             transform[e] =
                IF "update_from_velocity" \in ran
                THEN VAdd(transform0[e], VScale(velocity0[e], delta))
                ELSE transform0[e]

\* C13 witness: a whole unpaused frame was run over a single moving body,
\* which is no longer where it started.
OneBodyMoved ==
    /\ FrameDone
    /\ DOMAIN seen = Physics
    /\ SawUnpaused
    /\ Cardinality(mesh) = 1
    /\ transform # transform0
    /\ velocity = velocity0

\* The number of other bodies closer than the threshold to body a.
NearCount(a) == Cardinality({b \in Colliders \ {a} : Near(a, b)})

\* C14: an unpaused run of the collision system leaves a body closer than 10
\* to an even number of other bodies with the velocity it had, and a body
\* closer than 10 to an odd number of them with that velocity negated.
CollisionNegatesOncePerNearBody ==
    [][CollisionStep =>
         \A a \in Colliders :
            velocity'[a] = IF NearCount(a) % 2 = 0 THEN velocity[a]
                           ELSE VNeg(velocity[a])]_vars

\* C14 witness: the collision system has run first in an unpaused frame over
\* three bodies; a moving body closer than 10 to the two others has the
\* velocity it started with and a moving body closer than 10 to one other has
\* it negated.
MiddleBodyKeptEndBodyReversed ==
    /\ stage = "update"
    /\ ran = {"handle_collision"}
    /\ ~Paused
    /\ Cardinality(mesh) = 3
    /\ \E a \in Colliders :
          NearCount(a) = 2 /\ Moving(a) /\ velocity[a] = velocity0[a]
    /\ \E b \in Colliders :
          NearCount(b) = 1 /\ Moving(b) /\ velocity[b] = VNeg(velocity0[b])

\* The pairs the gravity system visits, in the order it visits them.
Visited == Combinations(Attracted)

\* What the visit of the pair of e and o adds to the velocity of e: the
\* attraction of the pair is added to its first body and subtracted from its
\* second.
Pull(e, o) ==
    IF e < o
    THEN calculate_new_velocity(mass[e], mass[o], transform[e], transform[o])
    ELSE VNeg(calculate_new_velocity(mass[o], mass[e],
                                     transform[o], transform[e]))

\* The sum of what the bodies of q add to the velocity of e.
RECURSIVE SumPulls(_, _)
SumPulls(e, q) ==
    IF q = <<>> THEN Vec3(F(0), F(0), F(0))
    ELSE VAdd(Pull(e, Head(q)), SumPulls(e, Tail(q)))

\* The sequence q with its elements i and j exchanged, and q started at i.
Exchanged(q, i, j) ==
    [k \in 1..Len(q) |-> IF k = i THEN q[j] ELSE IF k = j THEN q[i] ELSE q[k]]
Rotated(q, i) == [k \in 1..Len(q) |-> q[((k + i - 2) % Len(q)) + 1]]

\* Visiting orders of the pairs of q: every exchange of two pairs and every
\* rotation (for three pairs these are all the orders).
Orders(q) ==
    UNION {{Exchanged(q, i, j) : j \in (i + 1)..Len(q)} : i \in 1..Len(q)} \cup
    {Rotated(q, i) : i \in 1..Len(q)}

MaintainerNeverPanics ==
    /\ stage # "panicked"
    /\ ~SortPanics(Index)
    /\ (stage \in {"input", "exit"} /\ frame = MaxFrames)
          => "maintain_sorted_entities_x" \in ran

\* C16 witness: a whole frame was run in which a body's position became
\* non-finite and the maintainer moved an entry of the index.
SortedWithNonFiniteBody ==
    /\ FrameDone
    /\ \E e \in mesh : ~VFinite(transform[e])
    /\ Len(Index) >= 2
    /\ Index[1][1] # 1

\* A step of pause_game.
PauseGameStep == "pause_game" \notin ran /\ "pause_game" \in ran'

\* C17: after startup, a step changes the Pause flag only if it is a step of
\* pause_game in a frame in which Space was just pressed; and at every point
\* of a frame in which Space was not just pressed the flag has the value it
\* had at the start of the frame.
PauseWrittenOnlyOnSpaceEdge ==
    [][/\ (stage # "startup" /\ pause' # pause)
             => PauseGameStep /\ "Space" \in just_pressed
       /\ "Space" \notin just_pressed' => Paused' = pause0']_vars

\* C17 witness: a whole frame was run with the Space key held down since an
\* earlier frame; the flag, true at the start of the frame, is still true.
HeldKeyFrameKeptPause ==
    /\ FrameDone
    /\ frame >= 2
    /\ "Space" \in pressed \ just_pressed
    /\ pause0
    /\ Paused

\* C18: in the program as setup wires it, every body carries no Velocity and
\* no Mass and is, in every state after startup, at (100 * i, 0, 0), where
\* i counts the bodies from 0 in spawn order.
WiredBodiesNeverMove ==
    stage # "startup" =>
       \A b \in mesh :
          /\ b \notin DOMAIN velocity
          /\ b \notin DOMAIN mass
          /\ transform[b] = Vec3(F(Spacing * (b - 1) * One), F(0), F(0))

\* C18 witness: the third frame has been run whole, every physics system
\* reading the flag as false, after Space went down twice, over the
\* NumBodies bodies of setup.
WiredFramesRanUnpaused ==
    /\ FrameDone
    /\ frame = 3
    /\ edges = 2
    /\ DOMAIN seen = Physics
    /\ SawUnpaused
    /\ Cardinality(mesh) = NumBodies
    /\ transform[NumBodies] # transform[1]

\* The sum of the velocities vel of the bodies of q.
RECURSIVE SumVelocity(_, _)
SumVelocity(q, vel) ==
    IF q = <<>> THEN Vec3(F(0), F(0), F(0))
    ELSE VAdd(vel[Head(q)], SumVelocity(Tail(q), vel))

\* C19: an unpaused run of the gravity system, whatever the bodies' masses,
\* does not change the sum of the bodies' velocities.
GravityKeepsVelocitySum ==
    [][GravityStep =>
         SumVelocity(InOrder(Attracted), velocity')
            = SumVelocity(InOrder(Attracted), velocity)]_vars

\* A step of the named system, whatever the Pause flag.
Step(name) == name \notin ran /\ name \in ran'

\* C20: a step of the gravity system or of the collision system changes no
\* position and no mass; a step of the integrator changes no velocity and no
\* mass; and until the integrator has run in a frame every position is what
\* it was at the start of the frame.
PhysicsSystemsWriteOwnComponent ==
    [][/\ (Step("update_from_gravity") \/ Step("handle_collision"))
             => transform' = transform /\ mass' = mass
       /\ Step("update_from_velocity")
             => velocity' = velocity /\ mass' = mass
       /\ (stage' = "update" /\ "update_from_velocity" \notin ran')
             => transform' = transform0']_vars

\* C20 witness: the gravity and collision systems have run unpaused over
\* three moving bodies and changed their velocities, the integrator has not
\* run yet, and every body is where it was at the start of the frame.
VelocitiesChangedBeforeIntegration ==
    /\ stage = "update"
    /\ {"update_from_gravity", "handle_collision"} \subseteq ran
    /\ "update_from_velocity" \notin ran
    /\ DOMAIN seen = {"update_from_gravity", "handle_collision"}
    /\ SawUnpaused
    /\ Cardinality(Attracted) = 3
    /\ \A e \in Attracted : velocity[e] # velocity0[e]
    /\ transform = transform0

=============================================================================

